---- MODULE Spec2Model ----
(***************************************************************************)
(* Model of the redis-backed certificate store of cfssl (package           *)
(* certdb/redis) and of the `cfssl crl` command (package cli/crl).         *)
(*                                                                         *)
(* The repository holds two revisions of the redis accessor: the one in    *)
(* certdb/redis/accessor.go, which scans the key space once per filter     *)
(* method (called "accessor" below), and the one in unnamed/part_002,      *)
(* which pings the server in checkDB and funnels the three certificate     *)
(* filters through getCertificates (called "part002" below).  Every        *)
(* operation takes the revision as an input, so both are checked against   *)
(* the same key space.                                                     *)
(*                                                                         *)
(* Strings are TLA+ strings.  A time.Time is a natural number of ticks     *)
(* since the zero time, TicksPerSec ticks to the second, always in UTC.    *)
(***************************************************************************)
EXTENDS Integers, Sequences, FiniteSets, TLC

VARIABLES
    redis,      \* the server's key space: key -> hash (field -> string)
    adb,        \* Accessor.db: "nil" or "client"
    now,        \* the wall clock, in ticks
    ret,        \* what the last operation was given and what it returned
    conc        \* the calls of the concurrent callers: made, and under way

vars == <<redis, adb, now, ret, conc>>

---------------------------------------------------------------------------
(* Bounds of the model *)

\* resolution of the clock: ticks per second
TicksPerSec == 2

\* how many ticks the clock may advance
MaxTicks == 1

\* how many calls each concurrent caller makes
MaxCalls == 1

\* frames the goroutine stack holds before the runtime aborts the process
MaxStack == 3

\* the keys the store holds at most where certificates and OCSP responses
\* are written side by side
MaxKeys == 2

---------------------------------------------------------------------------
(* strconv and time: conversions between values and their strings *)

Digits == "0123456789"

Digit(d) == SubSeq(Digits, d + 1, d + 1)

Char(s, i) == SubSeq(s, i, i)

IsDigit(c) == \E d \in 0..9 : Digit(d) = c

DigitVal(c) == CHOOSE d \in 0..9 : Digit(d) = c

\* strconv.Itoa
RECURSIVE Itoa(_)
Itoa(n) ==
    IF n < 0 THEN "-" \o Itoa(0 - n)
    ELSE IF n < 10 THEN Digit(n)
    ELSE Itoa(n \div 10) \o Digit(n % 10)

AllDigits(s) == Len(s) > 0 /\ \A i \in 1..Len(s) : IsDigit(Char(s, i))

RECURSIVE DigitsVal(_)
DigitsVal(s) ==
    IF Len(s) = 0 THEN 0
    ELSE 10 * DigitsVal(SubSeq(s, 1, Len(s) - 1)) + DigitVal(Char(s, Len(s)))

\* strconv.Atoi: an optional sign and at least one digit, anything else fails
Atoi(s) ==
    LET signed == Len(s) > 0 /\ Char(s, 1) \in {"-", "+"}
        body   == IF signed THEN SubSeq(s, 2, Len(s)) ELSE s
    IN  IF ~AllDigits(body) THEN [ok |-> FALSE, val |-> 0]
        ELSE [ok |-> TRUE,
              val |-> IF signed /\ Char(s, 1) = "-" THEN 0 - DigitsVal(body)
                      ELSE DigitsVal(body)]

\* time.Time.Format(time.RFC3339): whole seconds, the fraction is dropped
FormatRFC3339(t) == Itoa(t \div TicksPerSec) \o "Z"

\* time.Time.Format(time.RFC3339Nano): the fraction is kept when it is not zero
FormatRFC3339Nano(t) ==
    Itoa(t \div TicksPerSec)
        \o (IF t % TicksPerSec = 0 THEN "" ELSE "." \o Itoa(t % TicksPerSec))
        \o "Z"

DotAt(s) == {i \in 1..Len(s) : Char(s, i) = "."}

\* time.Parse(time.RFC3339, s): seconds, an optional fraction, the zone
ParseRFC3339(s) ==
    LET bad  == [ok |-> FALSE, val |-> 0]
        body == SubSeq(s, 1, Len(s) - 1)
        dots == DotAt(body)
    IN  IF Len(s) < 2 \/ Char(s, Len(s)) # "Z" THEN bad
        ELSE IF dots = {} THEN
            IF AllDigits(body)
            THEN [ok |-> TRUE, val |-> DigitsVal(body) * TicksPerSec]
            ELSE bad
        ELSE IF Cardinality(dots) > 1 THEN bad
        ELSE LET d    == CHOOSE i \in dots : TRUE
                 sec  == SubSeq(body, 1, d - 1)
                 frac == SubSeq(body, d + 1, Len(body))
             IN  IF AllDigits(sec) /\ AllDigits(frac) /\ DigitsVal(frac) < TicksPerSec
                 THEN [ok |-> TRUE, val |-> DigitsVal(sec) * TicksPerSec + DigitsVal(frac)]
                 ELSE bad

---------------------------------------------------------------------------
(* Inputs the operations are called with *)

\* (serial, aki) pairs; the first two differ and yet join to the same text
Idents == {<<"1", "2:3">>, <<"1:2", "3">>, <<"1", "3">>}

Labels == {"A", "B"}

\* the clock starts one tick before a whole second
NowMin == 2 * TicksPerSec - 1

MaxNow == NowMin + MaxTicks

\* one expiry on a whole second that the clock reaches, one later and off the second
Expiries == {2 * TicksPerSec, 3 * TicksPerSec + 1}

InsertStatusReasons == {<<"good", 0>>, <<"revoked", 10>>}

RevokeReasons == {1}

Revisions == {"accessor", "part002"}

\* the server as one call sees it: reachable, unreachable, or lost after the ping
Nets == {"up", "down", "flaky"}

\* certdb.CertificateRecord
CertInputs ==
    {[Serial |-> id[1], AKI |-> id[2], CALabel |-> l, Status |-> sr[1],
      Reason |-> sr[2], Expiry |-> e, RevokedAt |-> 0, PEM |-> "pem"] :
        id \in Idents, l \in Labels, sr \in InsertStatusReasons, e \in Expiries}

\* a record whose status is neither "good" nor "revoked": the zero status of
\* the records TestAccessor_InsertCertificate inserts
InvalidCertInputs ==
    {[Serial |-> "1", AKI |-> "3", CALabel |-> "A", Status |-> "",
      Reason |-> 0, Expiry |-> 2 * TicksPerSec, RevokedAt |-> 0, PEM |-> "pem"]}

\* the zero value CertificateRecord{}
NoCert ==
    [Serial |-> "", AKI |-> "", CALabel |-> "", Status |-> "",
     Reason |-> 0, Expiry |-> 0, RevokedAt |-> 0, PEM |-> ""]

\* certdb.OCSPRecord values, the last identity having no serial
OcspIdents == {<<"1", "2:3">>, <<"1:2", "3">>, <<"", "3">>}

Bodies == {"b1", "b2"}

OcspInputs ==
    {[Serial |-> id[1], AKI |-> id[2], Body |-> b, Expiry |-> e] :
        id \in OcspIdents, b \in Bodies, e \in Expiries}

\* the zero value OCSPRecord{}
NoOCSP == [Serial |-> "", AKI |-> "", Body |-> "", Expiry |-> 0]

---------------------------------------------------------------------------
(* Keys and field names *)

revokedStatus == "revoked"

certKeyPrefix == "cert"

certKeyFromCertRec(cr) == certKeyPrefix \o ":" \o cr.Serial \o ":" \o cr.AKI

certKeyFromSerialAKI(serial, aki) == certKeyPrefix \o ":" \o serial \o ":" \o aki

\* OCSP responses kept under the prefix of the certificates
ocspKeyPrefixOfCerts == certKeyPrefix

ocspKeyPrefix == "ocsp"

ocspKeyFromOCSPRec(rr) == ocspKeyPrefix \o ":" \o rr.Serial \o ":" \o rr.AKI

ocspKeyFromSerialAKI(serial, aki) == ocspKeyPrefix \o ":" \o serial \o ":" \o aki

serialField == "serial_number"
akiField == "authority_key_identifier"
calabelField == "ca_label"
statusField == "status"
reasonField == "reason"
expiryField == "expiry"
revokedatField == "revoked_at"
pemField == "pem"
bodyField == "body"

---------------------------------------------------------------------------
(* The redis server and the client's commands *)

EmptyHash == [f \in {} |-> ""]

\* HGETALL: the hash at key, empty when there is no such key
HGetAll(key) == IF key \in DOMAIN redis THEN redis[key] ELSE EmptyHash

\* indexing the Go map HGetAll returns: a missing field reads as ""
Field(h, f) == IF f \in DOMAIN h THEN h[f] ELSE ""

\* a server that appends what it is given to what the field holds
hmsetAppending(key, fields) ==
    LET old == HGetAll(key)
        new == [f \in DOMAIN old \cup DOMAIN fields |->
                    IF f \notin DOMAIN fields THEN old[f]
                    ELSE IF f \in DOMAIN old THEN old[f] \o fields[f]
                    ELSE fields[f]]
    IN  [k \in DOMAIN redis \cup {key} |-> IF k = key THEN new ELSE redis[k]]

\* a server that drops the fields it is not given
hmsetReplacing(key, fields) ==
    [k \in DOMAIN redis \cup {key} |-> IF k = key THEN fields ELSE redis[k]]

\* HMSET: sets the given fields of the hash at key, creating the key; the
\* fields it is not given keep their values
HMSet(key, fields) ==
    LET old == HGetAll(key)
        new == [f \in DOMAIN old \cup DOMAIN fields |->
                    IF f \in DOMAIN fields THEN fields[f] ELSE old[f]]
    IN  [k \in DOMAIN redis \cup {key} |-> IF k = key THEN new ELSE redis[k]]

\* how the client writes a time.Time argument (its call sites pass one for
\* revoked_at): in the nanosecond layout, which time.Parse reads back
ArgTime(t) == FormatRFC3339Nano(t)

\* how the client writes an int argument
ArgInt(n) == Itoa(n)

\* SCAN 0 MATCH prefix:* : the keys under a prefix
ScanKeys(prefix) ==
    {k \in DOMAIN redis :
        Len(k) > Len(prefix) /\ SubSeq(k, 1, Len(prefix) + 1) = prefix \o ":"}

\* the orders in which the iterator may hand out the keys
ScanOrders(prefix) ==
    LET ks == ScanKeys(prefix)
        n  == Cardinality(ks)
    IN  {o \in [1..n -> ks] : \A i, j \in 1..n : o[i] = o[j] => i = j}

\* a command other than the ping fails unless the server stays reachable
cmdFails(net) == net # "up"

\* the order in which a client sending one field at a time would send them
FieldOrder ==
    <<serialField, akiField, calabelField, statusField, reasonField, expiryField,
      revokedatField, pemField>>

RECURSIVE oneFieldEach(_, _)
oneFieldEach(fields, i) ==
    IF i > Len(FieldOrder) THEN <<>>
    ELSE IF FieldOrder[i] \in DOMAIN fields
         THEN <<(FieldOrder[i] :> fields[FieldOrder[i]])>> \o oneFieldEach(fields, i + 1)
         ELSE oneFieldEach(fields, i + 1)

\* a client that sends one HSET per field
hsetPerField(fields) == oneFieldEach(fields, 1)

\* what a.db.HMSet(key, fields) sends the server: one HMSET command carrying
\* every field, which the server executes as a whole
hmsetCommands(fields) == <<fields>>

\* the goroutines that share the accessor
Callers == {1, 2}

\* the identity they all address
ConcIdent == <<"1", "3">>

ConcKey == certKeyFromSerialAKI(ConcIdent[1], ConcIdent[2])

\* a caller that has made no call
NoCalls == [calls |-> <<>>, pending |-> <<>>]

\* a nil *dbconf.DBConfig: it points at nothing, its fields cannot be read
NilCfg == [isNil |-> TRUE, DriverName |-> "", DataSourceName |-> ""]

\* the driver names database/sql knows in this build
RegisteredDrivers == {"sqlite3", "postgres"}

DriverNames == RegisteredDrivers \cup {"", "redis", "oracle"}

\* data source names: none, a redis URL, a file for a sql driver
DataSourceNames == {"", "redis://localhost:6379", "certs.db"}

\* the configurations the factory is called with
DBConfigs ==
    {NilCfg} \cup {[isNil |-> FALSE, DriverName |-> d, DataSourceName |-> n] :
                        d \in DriverNames, n \in DataSourceNames}

\* the two revisions of the factory: certdb/db/db.go and unnamed/part_001
FactoryRevisions == {"db.go", "part001"}

---------------------------------------------------------------------------
(* Results *)

NoErr == "nil"

\* cferr.Wrap(cferr.CertStoreError, cferr.Unknown, err)
wrapError == "CertStoreError"

\* the runtime's stack overflow: the process is aborted, nothing is returned
Fatal == "fatal: stack overflow"

\* a method called through the nil *redis.Client: the goroutine panics
Panic == "panic: nil pointer dereference"

Out(recs, err) == [recs |-> recs, err |-> err]

Ret0 ==
    [op |-> "", impl |-> "", cr |-> NoCert, serial |-> "", aki |-> "",
     label |-> "", reason |-> 0, served |-> FALSE, recs |-> <<>>, err |-> NoErr,
     caFile |-> "", caKeyFile |-> "", steps |-> <<>>, existed |-> FALSE,
     val |-> "", rr |-> NoOCSP, ping |-> "", cmds |-> {}, cfg |-> NilCfg]

---------------------------------------------------------------------------
(* The accessor *)

checkDB(db, impl, net) ==
    IF db = "nil" THEN wrapError
    ELSE IF impl = "part002" /\ net = "down" THEN wrapError
    ELSE NoErr

\* what a.db.Ping() returned in a call, "" when the call sent none
pingOf(db, impl, net) ==
    IF db = "nil" \/ impl = "accessor" THEN ""
    ELSE IF net = "down" THEN "failed" ELSE "ok"

\* the reads and writes a call sends the server: those after its checkDB,
\* when that returned nil
issued(db, impl, net, commands) ==
    IF checkDB(db, impl, net) # NoErr THEN {} ELSE commands

\* the reads and writes of a scan: the iterator's SCAN and, when it hands
\* out a key, HGETALL
scanCommands(net, order) ==
    IF cmdFails(net) \/ order = <<>> THEN {"Scan"} ELSE {"Scan", "HGetAll"}

\* an insert that leaves the revocation time of the stored record alone
certFieldsKeepRevokedAt(cr) ==
    (serialField :> cr.Serial) @@ (akiField :> cr.AKI) @@
    (calabelField :> cr.CALabel) @@ (statusField :> cr.Status) @@
    (reasonField :> Itoa(cr.Reason)) @@
    (expiryField :> FormatRFC3339(cr.Expiry)) @@
    (pemField :> cr.PEM)

\* the field map InsertCertificate writes
certFields(cr) ==
    (serialField :> cr.Serial) @@ (akiField :> cr.AKI) @@
    (calabelField :> cr.CALabel) @@ (statusField :> cr.Status) @@
    (reasonField :> Itoa(cr.Reason)) @@
    (expiryField :> FormatRFC3339(cr.Expiry)) @@
    (revokedatField :> FormatRFC3339(cr.RevokedAt)) @@
    (pemField :> cr.PEM)

\* a revocation that records the reason and the time but not the status
revokeFieldsNoStatus(reasonCode) ==
    (reasonField :> ArgInt(reasonCode)) @@ (revokedatField :> ArgTime(now))

\* a revocation that records its time as a count of ticks
revokeFieldsTickCount(reasonCode) ==
    (statusField :> revokedStatus) @@ (reasonField :> ArgInt(reasonCode)) @@
    (revokedatField :> ArgInt(now))

\* the field map RevokeCertificate writes
revokeFields(reasonCode) ==
    (statusField :> revokedStatus) @@ (reasonField :> ArgInt(reasonCode)) @@
    (revokedatField :> ArgTime(now))

\* a reader that drops the errors of the three parses
decodeCertIgnoringErrors(h) ==
    [ok  |-> TRUE,
     rec |-> [Serial |-> Field(h, serialField), AKI |-> Field(h, akiField),
              CALabel |-> Field(h, calabelField), Status |-> Field(h, statusField),
              Reason |-> Atoi(Field(h, reasonField)).val,
              Expiry |-> ParseRFC3339(Field(h, expiryField)).val,
              RevokedAt |-> ParseRFC3339(Field(h, revokedatField)).val,
              PEM |-> Field(h, pemField)]]

\* what the readers make of a hash: the three parses, then the record
decodeCert(h) ==
    LET reason == Atoi(Field(h, reasonField))
        expiry == ParseRFC3339(Field(h, expiryField))
        revat  == ParseRFC3339(Field(h, revokedatField))
    IN  [ok  |-> reason.ok /\ expiry.ok /\ revat.ok,
         rec |-> [Serial |-> Field(h, serialField), AKI |-> Field(h, akiField),
                  CALabel |-> Field(h, calabelField), Status |-> Field(h, statusField),
                  Reason |-> reason.val, Expiry |-> expiry.val,
                  RevokedAt |-> revat.val, PEM |-> Field(h, pemField)]]

GetCertificate(db, impl, serial, aki, net) ==
    IF checkDB(db, impl, net) # NoErr THEN Out(<<>>, checkDB(db, impl, net))
    ELSE IF cmdFails(net) THEN Out(<<>>, wrapError)
    ELSE LET d == decodeCert(HGetAll(certKeyFromSerialAKI(serial, aki)))
         IN  IF ~d.ok THEN Out(<<>>, wrapError) ELSE Out(<<d.rec>>, NoErr)

\* accessor.go: time.Now().UTC().Before(expiry)
checkUnexpired(expiry) == now < expiry

checkRevokedUnexpired(status, expiry) == status = revokedStatus /\ now < expiry

\* part_002: checkUnexpired returns checkUnexpired(expiry): every call makes
\* the next one, until the stack is full
RECURSIVE checkUnexpired002(_, _)
checkUnexpired002(expiry, depth) ==
    IF depth >= MaxStack THEN "overflow" ELSE checkUnexpired002(expiry, depth + 1)

\* part_002: status == revokedStatus && checkUnexpired(expiry)
checkRevokedUnexpired002(status, expiry) ==
    IF status # revokedStatus THEN "false" ELSE checkUnexpired002(expiry, 0)

\* what the filter predicates are called with: the statuses and expiries of
\* their tests, an hour ago being one tick before the clock starts
PredicateStatuses == {revokedStatus, ""}

PredicateExpiries == Expiries \cup {NowMin - 1}

\* the bool a predicate returned, or that it never returned
BoolOf(b) == IF b THEN "true" ELSE "false"

\* checkUnexpired as a caller of either revision sees it
checkUnexpiredOf(impl, expiry) ==
    IF impl = "accessor" THEN BoolOf(checkUnexpired(expiry))
    ELSE checkUnexpired002(expiry, 0)

\* checkRevokedUnexpired as a caller of either revision sees it
checkRevokedUnexpiredOf(impl, status, expiry) ==
    IF impl = "accessor" THEN BoolOf(checkRevokedUnexpired(status, expiry))
    ELSE checkRevokedUnexpired002(status, expiry)

\* accessor.go: the condition under which each of the three scans keeps a record
keeps(method, rec, label) ==
    CASE method = "GetUnexpiredCertificates" -> checkUnexpired(rec.Expiry)
      [] method = "GetRevokedAndUnexpiredCertificates" ->
            checkRevokedUnexpired(rec.Status, rec.Expiry)
      [] method = "GetRevokedAndUnexpiredCertificatesByLabel" ->
            checkRevokedUnexpired(rec.Status, rec.Expiry) /\ rec.CALabel = label

\* accessor.go: the loop of the three scans, from the i-th key on
RECURSIVE scanLoop(_, _, _, _, _)
scanLoop(method, label, order, i, recs) ==
    IF i > Len(order) THEN Out(recs, NoErr)
    ELSE LET d == decodeCert(HGetAll(order[i]))
         IN  IF ~d.ok THEN Out(<<>>, wrapError)
             ELSE scanLoop(method, label, order, i + 1,
                           IF keeps(method, d.rec, label) THEN Append(recs, d.rec)
                           ELSE recs)

\* part_002: the switch of getCertificates: "keep", "continue" or "overflow"
filterSwitch(filter, va, rec) ==
    CASE filter = "unexpired" ->
            LET c == checkUnexpired002(rec.Expiry, 0)
            IN  IF c = "false" THEN "continue" ELSE IF c = "true" THEN "keep" ELSE c
      [] filter = "unexpiredRevoked" ->
            LET c == checkRevokedUnexpired002(rec.Status, rec.Expiry)
            IN  IF c = "false" THEN "continue" ELSE IF c = "true" THEN "keep" ELSE c
      [] filter = "unexpiredRevokedLabel" ->
            IF Len(va) = 0 THEN "continue"
            ELSE LET c == checkRevokedUnexpired002(rec.Status, rec.Expiry)
                 IN  IF c = "false" THEN "continue"
                     ELSE IF c = "overflow" THEN c
                     ELSE IF rec.CALabel = va[1] THEN "keep" ELSE "continue"
      [] OTHER -> "continue"

\* part_002: the loop of getCertificates, from the i-th key on
RECURSIVE getCertificatesLoop(_, _, _, _, _)
getCertificatesLoop(filter, va, order, i, recs) ==
    IF i > Len(order) THEN Out(recs, NoErr)
    ELSE LET d == decodeCert(HGetAll(order[i]))
         IN  IF ~d.ok THEN Out(<<>>, wrapError)
             ELSE LET sw == filterSwitch(filter, va, d.rec)
                  IN  IF sw = "overflow" THEN Out(<<>>, Fatal)
                      ELSE getCertificatesLoop(filter, va, order, i + 1,
                               IF sw = "keep" THEN Append(recs, d.rec) ELSE recs)

\* part_002
getCertificates(db, filter, va, net, order) ==
    IF checkDB(db, "part002", net) # NoErr THEN Out(<<>>, checkDB(db, "part002", net))
    ELSE IF cmdFails(net) THEN Out(<<>>, wrapError)
    ELSE getCertificatesLoop(filter, va, order, 1, <<>>)

\* accessor.go: one of the three scanning methods
scanCertificates(db, method, label, net, order) ==
    IF checkDB(db, "accessor", net) # NoErr THEN Out(<<>>, checkDB(db, "accessor", net))
    ELSE IF cmdFails(net) THEN Out(<<>>, wrapError)
    ELSE scanLoop(method, label, order, 1, <<>>)

GetUnexpiredCertificates(db, impl, net, order) ==
    IF impl = "accessor"
    THEN scanCertificates(db, "GetUnexpiredCertificates", "", net, order)
    ELSE getCertificates(db, "unexpired", <<>>, net, order)

GetRevokedAndUnexpiredCertificates(db, impl, net, order) ==
    IF impl = "accessor"
    THEN scanCertificates(db, "GetRevokedAndUnexpiredCertificates", "", net, order)
    ELSE getCertificates(db, "unexpiredRevoked", <<>>, net, order)

GetRevokedAndUnexpiredCertificatesByLabel(db, impl, label, net, order) ==
    IF impl = "accessor"
    THEN scanCertificates(db, "GetRevokedAndUnexpiredCertificatesByLabel", label, net, order)
    ELSE getCertificates(db, "unexpiredRevoked", <<label>>, net, order)

---------------------------------------------------------------------------
(* The accessor: OCSP responses *)

\* the field map InsertOCSP writes: the expiry is handed over as a time.Time
ocspInsertFields(rr) ==
    (serialField :> rr.Serial) @@ (akiField :> rr.AKI) @@
    (bodyField :> rr.Body) @@ (expiryField :> ArgTime(rr.Expiry))

\* the field map UpdateOCSP writes: the expiry is formatted
ocspUpdateFields(serial, aki, body, expiry) ==
    (serialField :> serial) @@ (akiField :> aki) @@
    (bodyField :> body) @@ (expiryField :> FormatRFC3339(expiry))

\* what the OCSP readers make of a hash: the parse of the expiry, then the record
decodeOCSP(h) ==
    [ok  |-> ParseRFC3339(Field(h, expiryField)).ok,
     rec |-> [Serial |-> Field(h, serialField), AKI |-> Field(h, akiField),
              Body |-> Field(h, bodyField),
              Expiry |-> ParseRFC3339(Field(h, expiryField)).val]]

\* what a write operation did: the error it returned, whether the server
\* executed its HMSET, and the commands it sent
Wrote(err, done, commands) == [err |-> err, done |-> done, cmds |-> commands]

\* a.db.HMSet(key, rrmap).Err() and the return that follows it
hmsetThenReturn(net) ==
    Wrote(IF cmdFails(net) THEN wrapError ELSE NoErr, ~cmdFails(net), {"HMSet"})

\* accessor.go calls updateOCSPRecord and drops what it returns; part_002
\* returns the wrapped error of its HMSet
InsertOCSPResult(db, impl, net) ==
    IF checkDB(db, impl, net) # NoErr THEN Wrote(checkDB(db, impl, net), FALSE, {})
    ELSE IF impl = "accessor" THEN Wrote(NoErr, ~cmdFails(net), {"HMSet"})
    ELSE hmsetThenReturn(net)

\* accessor.go goes to a.db.HMSet without checkDB; part_002 checks first
UpdateOCSPResult(db, impl, net) ==
    IF impl = "accessor"
    THEN IF db = "nil" THEN Wrote(Panic, FALSE, {}) ELSE hmsetThenReturn(net)
    ELSE IF checkDB(db, impl, net) # NoErr THEN Wrote(checkDB(db, impl, net), FALSE, {})
    ELSE hmsetThenReturn(net)

\* accessor.go checks and calls UpdateOCSP; part_002 only calls UpdateOCSP
UpsertOCSPResult(db, impl, net) ==
    IF impl = "accessor" /\ checkDB(db, impl, net) # NoErr
    THEN Wrote(checkDB(db, impl, net), FALSE, {})
    ELSE UpdateOCSPResult(db, impl, net)

GetOCSP(db, impl, serial, aki, net) ==
    IF checkDB(db, impl, net) # NoErr THEN Out(<<>>, checkDB(db, impl, net))
    ELSE IF cmdFails(net) THEN Out(<<>>, wrapError)
    ELSE LET d == decodeOCSP(HGetAll(ocspKeyFromSerialAKI(serial, aki)))
         IN  IF ~d.ok THEN Out(<<>>, wrapError) ELSE Out(<<d.rec>>, NoErr)

\* the loop of GetUnexpiredOCSPs, from the i-th key on: accessor.go compares
\* the expiry with the clock, part_002 calls checkUnexpired
RECURSIVE ocspLoop(_, _, _, _)
ocspLoop(impl, order, i, recs) ==
    IF i > Len(order) THEN Out(recs, NoErr)
    ELSE LET d == decodeOCSP(HGetAll(order[i]))
         IN  IF ~d.ok THEN Out(<<>>, wrapError)
             ELSE IF checkUnexpiredOf(impl, d.rec.Expiry) = "overflow"
                  THEN Out(<<>>, Fatal)
             ELSE ocspLoop(impl, order, i + 1,
                           IF checkUnexpiredOf(impl, d.rec.Expiry) = "true"
                           THEN Append(recs, d.rec) ELSE recs)

GetUnexpiredOCSPs(db, impl, net, order) ==
    IF checkDB(db, impl, net) # NoErr THEN Out(<<>>, checkDB(db, impl, net))
    ELSE IF cmdFails(net) THEN Out(<<>>, wrapError)
    ELSE ocspLoop(impl, order, 1, <<>>)

---------------------------------------------------------------------------
(* The accessor factory of package db *)

\* what the factory returns: the kind of accessor ("nil" for none) and the error
Made(kind, err) == [kind |-> kind, err |-> err]

\* redis.ParseURL accepts a redis:// URL
redisParseURL(dsn) == Len(dsn) >= 8 /\ SubSeq(dsn, 1, 8) = "redis://"

\* redis.NewAccessor(cfg)
redisNewAccessor(cfg) ==
    IF redisParseURL(cfg.DataSourceName) THEN Made("redis", NoErr)
    ELSE Made("nil", wrapError)

\* sqlx.Open and sql.NewAccessor: an unknown driver is an error; a known one
\* may still turn the data source name down
sqlNewAccessor(cfg, dsnOk) ==
    IF cfg.DriverName \notin RegisteredDrivers THEN Made("nil", "sql: unknown driver")
    ELSE IF ~dsnOk THEN Made("nil", "sql: bad data source name")
    ELSE Made("sql", NoErr)

\* both revisions from the log.Debug line on
newAccessorForDriver(cfg, dsnOk) ==
    IF cfg.DriverName = "redis" THEN redisNewAccessor(cfg)
    ELSE sqlNewAccessor(cfg, dsnOk)

\* db.NewAccessor: db.go turns a nil configuration away; part_001 reads
\* cfg.DriverName at once, which panics on a nil configuration
dbNewAccessor(rev, cfg, dsnOk) ==
    IF cfg.isNil
    THEN IF rev = "db.go" THEN Made("nil", wrapError) ELSE Made("nil", Panic)
    ELSE newAccessorForDriver(cfg, dsnOk)

---------------------------------------------------------------------------
(* The crl command *)

\* the CA whose certificate and key the command is given
IssuerCALabel == "A"

CAFiles == {"", "ca.pem"}

CAKeyFiles == {"", "ca-key.pem"}

\* the calls of generateCRL that may fail for reasons outside the store
CrlFailures ==
    {"LoadFile", "NewAccessor", "ReadBytes(ca)", "ReadBytes(key)",
     "ParseCertificatePEM", "ParsePrivateKeyPEMWithPassword", "NewCRLFromDB"}

\* the runs of the command: <<CAFile, CAKeyFile, failing call, server, revision>>.
\* Without both paths nothing else is consulted; with a call failing before
\* the query the server and the revision are not reached.
CrlRuns ==
    {<<f, k, "none", "up", "accessor">> : f \in CAFiles, k \in CAKeyFiles}
    \cup {<<"ca.pem", "ca-key.pem", x, "up", "accessor">> : x \in CrlFailures}
    \cup {<<"ca.pem", "ca-key.pem", x, n, i>> :
            x \in {"none", "NewCRLFromDB"}, n \in Nets, i \in Revisions}

Gen(steps, certs, crlBytes, err) ==
    [steps |-> steps, certs |-> certs, crlBytes |-> crlBytes, err |-> err]

CrlStepsQueryFirst ==
    <<"LoadFile", "NewAccessor", "GetRevokedAndUnexpiredCertificates",
      "ReadBytes(ca)", "ReadBytes(key)", "ParseCertificatePEM",
      "ParsePrivateKeyPEMWithPassword", "NewCRLFromDB">>

\* cferr.Wrap(cferr.CertificateError, cferr.ReadFailed, err): a new error of
\* that category and reason, carrying err's message
cferrWrap(err) == "CertificateError/ReadFailed: " \o err

\* a generateCRL that, from the loading on, queries the store as soon as it
\* has an accessor and reads the CA's files afterwards
generateCRLQueryFirst(failAt, q) ==
    IF failAt \in {"LoadFile", "NewAccessor"}
    THEN Gen(IF failAt = "LoadFile" THEN <<"LoadFile">>
             ELSE <<"LoadFile", "NewAccessor">>, <<>>, "nil", failAt)
    ELSE IF q.err # NoErr
    THEN Gen(<<"LoadFile", "NewAccessor", "GetRevokedAndUnexpiredCertificates">>,
             <<>>, "nil", q.err)
    ELSE IF failAt \in {"ReadBytes(ca)", "ParseCertificatePEM",
                        "ParsePrivateKeyPEMWithPassword"}
    THEN Gen(<<"LoadFile", "NewAccessor", "GetRevokedAndUnexpiredCertificates",
               failAt>>, <<>>, "nil", failAt)
    ELSE IF failAt = "ReadBytes(key)"
    THEN Gen(<<"LoadFile", "NewAccessor", "GetRevokedAndUnexpiredCertificates",
               failAt>>, <<>>, "nil", cferrWrap(failAt))
    ELSE IF failAt = "NewCRLFromDB"
    THEN Gen(<<"LoadFile", "NewAccessor", "GetRevokedAndUnexpiredCertificates",
               "ReadBytes(ca)", "ReadBytes(key)", "ParseCertificatePEM",
               "ParsePrivateKeyPEMWithPassword", "NewCRLFromDB">>,
             q.recs, "nil", failAt)
    ELSE Gen(CrlStepsQueryFirst, q.recs, "crl", NoErr)

\* generateCRL from the loading of the database configuration on, q being
\* what GetRevokedAndUnexpiredCertificates returns if it is called: steps lists
\* the calls made, certs what NewCRLFromDB was given
generateCRLFromLoad(failAt, q) ==
    IF failAt = "LoadFile" THEN Gen(<<"LoadFile">>, <<>>, "nil", failAt)
    ELSE IF failAt = "NewAccessor"
         THEN Gen(<<"LoadFile", "NewAccessor">>, <<>>, "nil", failAt)
    ELSE IF failAt = "ReadBytes(ca)"
         THEN Gen(<<"LoadFile", "NewAccessor", "ReadBytes(ca)">>, <<>>, "nil", failAt)
    ELSE IF failAt = "ReadBytes(key)"
         THEN Gen(<<"LoadFile", "NewAccessor", "ReadBytes(ca)", "ReadBytes(key)">>,
                  <<>>, "nil", cferrWrap(failAt))
    ELSE IF failAt = "ParseCertificatePEM"
         THEN Gen(<<"LoadFile", "NewAccessor", "ReadBytes(ca)", "ReadBytes(key)",
                    "ParseCertificatePEM">>, <<>>, "nil", failAt)
    ELSE IF failAt = "ParsePrivateKeyPEMWithPassword"
         THEN Gen(<<"LoadFile", "NewAccessor", "ReadBytes(ca)", "ReadBytes(key)",
                    "ParseCertificatePEM", "ParsePrivateKeyPEMWithPassword">>,
                  <<>>, "nil", failAt)
    ELSE IF q.err # NoErr
         THEN Gen(<<"LoadFile", "NewAccessor", "ReadBytes(ca)", "ReadBytes(key)",
                    "ParseCertificatePEM", "ParsePrivateKeyPEMWithPassword",
                    "GetRevokedAndUnexpiredCertificates">>, <<>>, "nil", q.err)
    ELSE IF failAt = "NewCRLFromDB"
         THEN Gen(<<"LoadFile", "NewAccessor", "ReadBytes(ca)", "ReadBytes(key)",
                    "ParseCertificatePEM", "ParsePrivateKeyPEMWithPassword",
                    "GetRevokedAndUnexpiredCertificates", "NewCRLFromDB">>,
                  q.recs, "nil", failAt)
    ELSE Gen(<<"LoadFile", "NewAccessor", "ReadBytes(ca)", "ReadBytes(key)",
               "ParseCertificatePEM", "ParsePrivateKeyPEMWithPassword",
               "GetRevokedAndUnexpiredCertificates", "NewCRLFromDB">>,
             q.recs, "crl", NoErr)

\* a generateCRL that looks at the paths only after loading the configuration
generateCRLLoadFirst(c, failAt, q) ==
    IF failAt = "LoadFile" THEN Gen(<<"LoadFile">>, <<>>, "nil", failAt)
    ELSE IF c.CAFile = "" \/ c.CAKeyFile = "" THEN Gen(<<"LoadFile">>, <<>>, "nil", NoErr)
    ELSE generateCRLFromLoad(failAt, q)

\* generateCRL: without a CA certificate path or a CA key path it logs and
\* returns its named results as they are, crlBytes nil and err nil
generateCRL(c, failAt, q) ==
    IF c.CAFile = "" THEN Gen(<<>>, <<>>, "nil", NoErr)
    ELSE IF c.CAKeyFile = "" THEN Gen(<<>>, <<>>, "nil", NoErr)
    ELSE generateCRLFromLoad(failAt, q)

\* crlMain, g being what generateCRL returned: an error is returned, anything
\* else is printed
crlMain(g) ==
    [g EXCEPT !.steps = IF g.err # NoErr THEN g.steps ELSE Append(g.steps, "PrintCRL")]

---------------------------------------------------------------------------
(* Actions.  An operation is one step: it runs to its return and leaves in   *)
(* ret what it was called with and what it returned; Return is the caller    *)
(* taking that result, after which the next operation can be called.         *)

\* no call is pending
Idle == ret = Ret0

\* the accessor's process was aborted, or no accessor could be constructed
Dead ==
    \/ ret.err = Fatal /\ ret.op # "crl"
    \/ ret.err = Panic
    \/ ret.op = "NewAccessor" /\ ret.err # NoErr

Return ==
    /\ ~Idle /\ ~Dead
    /\ ret' = Ret0
    /\ UNCHANGED <<redis, adb, now, conc>>

\* redis.NewAccessor, in a process started after the last one ended
NewAccessor ==
    /\ Dead
    /\ \E urlOk \in BOOLEAN :
        /\ adb' = IF urlOk THEN "client" ELSE adb
        /\ ret' = [Ret0 EXCEPT !.op = "NewAccessor",
                               !.err = IF urlOk THEN NoErr ELSE wrapError]
    /\ UNCHANGED <<redis, now, conc>>

SetDB ==
    /\ Idle
    /\ \E db \in {"nil", "client"} : adb' = db
    /\ UNCHANGED <<redis, now, ret, conc>>

\* time passes
Tick ==
    /\ Idle
    /\ now < MaxNow
    /\ now' = now + 1
    /\ UNCHANGED <<redis, adb, ret, conc>>

InsertCertificate ==
    /\ Idle
    /\ \E impl \in Revisions, cr \in CertInputs \cup InvalidCertInputs, net \in Nets :
        LET err == IF checkDB(adb, impl, net) # NoErr THEN checkDB(adb, impl, net)
                   ELSE IF cmdFails(net) THEN wrapError
                   ELSE NoErr
        IN  /\ redis' = IF err = NoErr THEN HMSet(certKeyFromCertRec(cr), certFields(cr))
                        ELSE redis
            /\ ret' = [Ret0 EXCEPT !.op = "InsertCertificate", !.impl = impl,
                                   !.served = net = "up",
                                   !.cr = IF err = NoErr THEN cr ELSE NoCert,
                                   !.existed = err = NoErr
                                               /\ certKeyFromCertRec(cr) \in DOMAIN redis,
                                   !.ping = pingOf(adb, impl, net),
                                   !.cmds = issued(adb, impl, net, {"HMSet"}),
                                   !.err = err]
    /\ UNCHANGED <<adb, now, conc>>

RevokeCertificate ==
    /\ Idle
    /\ \E impl \in Revisions, id \in Idents, reasonCode \in RevokeReasons, net \in Nets :
        LET err == IF checkDB(adb, impl, net) # NoErr THEN checkDB(adb, impl, net)
                   ELSE IF cmdFails(net) THEN wrapError
                   ELSE NoErr
            key == certKeyFromSerialAKI(id[1], id[2])
        IN  /\ redis' = IF err = NoErr THEN HMSet(key, revokeFields(reasonCode))
                        ELSE redis
            /\ ret' = [Ret0 EXCEPT !.op = "RevokeCertificate", !.impl = impl,
                                   !.serial = id[1], !.aki = id[2],
                                   !.reason = reasonCode, !.served = net = "up",
                                   !.existed = key \in DOMAIN redis,
                                   !.ping = pingOf(adb, impl, net),
                                   !.cmds = issued(adb, impl, net, {"HMSet"}),
                                   !.err = err]
    /\ UNCHANGED <<adb, now, conc>>

CallGetCertificate ==
    /\ Idle
    /\ \E impl \in Revisions, id \in Idents, net \in Nets :
        LET out == GetCertificate(adb, impl, id[1], id[2], net)
        IN  ret' = [Ret0 EXCEPT !.op = "GetCertificate", !.impl = impl,
                                !.serial = id[1], !.aki = id[2], !.served = net = "up",
                                !.existed = certKeyFromSerialAKI(id[1], id[2])
                                                \in DOMAIN redis,
                                !.ping = pingOf(adb, impl, net),
                                !.cmds = issued(adb, impl, net, {"HGetAll"}),
                                !.recs = out.recs, !.err = out.err]
    /\ UNCHANGED <<redis, adb, now, conc>>

CallGetUnexpiredCertificates ==
    /\ Idle
    /\ \E impl \in Revisions, net \in Nets, order \in ScanOrders(certKeyPrefix) :
        LET out == GetUnexpiredCertificates(adb, impl, net, order)
        IN  ret' = [Ret0 EXCEPT !.op = "GetUnexpiredCertificates", !.impl = impl,
                                !.served = net = "up",
                                !.ping = pingOf(adb, impl, net),
                                !.cmds = issued(adb, impl, net, scanCommands(net, order)),
                                !.recs = out.recs, !.err = out.err]
    /\ UNCHANGED <<redis, adb, now, conc>>

CallGetRevokedAndUnexpiredCertificates ==
    /\ Idle
    /\ \E impl \in Revisions, net \in Nets, order \in ScanOrders(certKeyPrefix) :
        LET out == GetRevokedAndUnexpiredCertificates(adb, impl, net, order)
        IN  ret' = [Ret0 EXCEPT !.op = "GetRevokedAndUnexpiredCertificates",
                                !.impl = impl, !.served = net = "up",
                                !.ping = pingOf(adb, impl, net),
                                !.cmds = issued(adb, impl, net, scanCommands(net, order)),
                                !.recs = out.recs, !.err = out.err]
    /\ UNCHANGED <<redis, adb, now, conc>>

CallGetRevokedAndUnexpiredCertificatesByLabel ==
    /\ Idle
    /\ \E impl \in Revisions, label \in Labels, net \in Nets,
          order \in ScanOrders(certKeyPrefix) :
        LET out == GetRevokedAndUnexpiredCertificatesByLabel(adb, impl, label, net, order)
        IN  ret' = [Ret0 EXCEPT !.op = "GetRevokedAndUnexpiredCertificatesByLabel",
                                !.impl = impl, !.label = label, !.served = net = "up",
                                !.ping = pingOf(adb, impl, net),
                                !.cmds = issued(adb, impl, net, scanCommands(net, order)),
                                !.recs = out.recs, !.err = out.err]
    /\ UNCHANGED <<redis, adb, now, conc>>

\* what a call of one of the two predicates leaves behind
Checked(op, impl, status, expiry, c) ==
    ret' = [Ret0 EXCEPT !.op = op, !.impl = impl,
                        !.cr = [NoCert EXCEPT !.Status = status, !.Expiry = expiry],
                        !.val = IF c = "overflow" THEN "" ELSE c,
                        !.err = IF c = "overflow" THEN Fatal ELSE NoErr]

\* a direct call of checkUnexpired, as Test_checkUnexpired makes it
CallCheckUnexpired ==
    /\ Idle
    /\ \E impl \in Revisions, expiry \in PredicateExpiries :
        Checked("checkUnexpired", impl, "", expiry, checkUnexpiredOf(impl, expiry))
    /\ UNCHANGED <<redis, adb, now, conc>>

\* a direct call of checkRevokedUnexpired, as Test_checkRevokedUnexpired makes it
CallCheckRevokedUnexpired ==
    /\ Idle
    /\ \E impl \in Revisions, status \in PredicateStatuses, expiry \in PredicateExpiries :
        Checked("checkRevokedUnexpired", impl, status, expiry,
                checkRevokedUnexpiredOf(impl, status, expiry))
    /\ UNCHANGED <<redis, adb, now, conc>>

\* what one run of the command leaves behind
Ran(run, m) ==
    ret' = [Ret0 EXCEPT !.op = "crl", !.impl = run[5], !.served = run[4] = "up",
                        !.caFile = run[1], !.caKeyFile = run[2],
                        !.steps = m.steps, !.recs = m.certs, !.err = m.err]

\* one run of `cfssl crl`, in a process of its own with an accessor of its own
CrlMain ==
    /\ Idle
    /\ \E run \in CrlRuns, order \in ScanOrders(certKeyPrefix) :
        Ran(run, crlMain(generateCRL([CAFile |-> run[1], CAKeyFile |-> run[2]], run[3],
                GetRevokedAndUnexpiredCertificates("client", run[5], run[4], order))))
    /\ UNCHANGED <<redis, adb, now, conc>>

Init ==
    /\ redis = <<>>
    /\ adb = "client"
    /\ now = NowMin
    /\ ret = Ret0
    /\ conc = [c \in Callers |-> NoCalls]

Next ==
    \/ Return
    \/ NewAccessor
    \/ SetDB
    \/ Tick
    \/ InsertCertificate
    \/ RevokeCertificate
    \/ CallGetCertificate
    \/ CallGetUnexpiredCertificates
    \/ CallGetRevokedAndUnexpiredCertificates
    \/ CallGetRevokedAndUnexpiredCertificatesByLabel
    \/ CallCheckUnexpired
    \/ CallCheckRevokedUnexpired
    \/ CrlMain

Spec == Init /\ [][Next]_vars

---------------------------------------------------------------------------
(* The OCSP operations, over the same server *)

\* what a write of an OCSP response leaves behind
WroteOCSP(op, impl, rr, net, w, fields) ==
    /\ redis' = IF w.done THEN HMSet(ocspKeyFromOCSPRec(rr), fields) ELSE redis
    /\ ret' = [Ret0 EXCEPT !.op = op, !.impl = impl, !.rr = rr,
                            !.serial = rr.Serial, !.aki = rr.AKI,
                            !.served = net = "up",
                            !.existed = ocspKeyFromOCSPRec(rr) \in DOMAIN redis,
                            !.ping = pingOf(adb, impl, net),
                            !.cmds = w.cmds, !.err = w.err]

InsertOCSP ==
    /\ Idle
    /\ \E impl \in Revisions, rr \in OcspInputs, net \in Nets :
        WroteOCSP("InsertOCSP", impl, rr, net, InsertOCSPResult(adb, impl, net),
                  ocspInsertFields(rr))
    /\ UNCHANGED <<adb, now, conc>>

UpdateOCSP ==
    /\ Idle
    /\ \E impl \in Revisions, rr \in OcspInputs, net \in Nets :
        WroteOCSP("UpdateOCSP", impl, rr, net, UpdateOCSPResult(adb, impl, net),
                  ocspUpdateFields(rr.Serial, rr.AKI, rr.Body, rr.Expiry))
    /\ UNCHANGED <<adb, now, conc>>

UpsertOCSP ==
    /\ Idle
    /\ \E impl \in Revisions, rr \in OcspInputs, net \in Nets :
        WroteOCSP("UpsertOCSP", impl, rr, net, UpsertOCSPResult(adb, impl, net),
                  ocspUpdateFields(rr.Serial, rr.AKI, rr.Body, rr.Expiry))
    /\ UNCHANGED <<adb, now, conc>>

\* what a read of OCSP responses leaves behind
ReadOCSP(op, impl, serial, aki, net, commands, out) ==
    ret' = [Ret0 EXCEPT !.op = op, !.impl = impl, !.serial = serial, !.aki = aki,
                        !.served = net = "up",
                        !.existed = ocspKeyFromSerialAKI(serial, aki) \in DOMAIN redis,
                        !.ping = pingOf(adb, impl, net),
                        !.cmds = issued(adb, impl, net, commands),
                        !.recs = out.recs, !.err = out.err]

CallGetOCSP ==
    /\ Idle
    /\ \E impl \in Revisions, id \in OcspIdents, net \in Nets :
        ReadOCSP("GetOCSP", impl, id[1], id[2], net, {"HGetAll"},
                 GetOCSP(adb, impl, id[1], id[2], net))
    /\ UNCHANGED <<redis, adb, now, conc>>

CallGetUnexpiredOCSPs ==
    /\ Idle
    /\ \E impl \in Revisions, net \in Nets, order \in ScanOrders(ocspKeyPrefix) :
        ReadOCSP("GetUnexpiredOCSPs", impl, "", "", net, scanCommands(net, order),
                 GetUnexpiredOCSPs(adb, impl, net, order))
    /\ UNCHANGED <<redis, adb, now, conc>>

NextOCSP ==
    \/ Return
    \/ NewAccessor
    \/ SetDB
    \/ Tick
    \/ InsertOCSP
    \/ UpdateOCSP
    \/ UpsertOCSP
    \/ CallGetOCSP
    \/ CallGetUnexpiredOCSPs

SpecOCSP == Init /\ [][NextOCSP]_vars

---------------------------------------------------------------------------
(* Certificates and OCSP responses written to the same server, by an
   accessor that holds its client, at one moment of the clock *)

\* the write leaves the store within its bound
StoreRoom == Cardinality(DOMAIN redis') <= MaxKeys

StoreInsertCertificate == InsertCertificate /\ StoreRoom

StoreRevokeCertificate == RevokeCertificate /\ StoreRoom

StoreInsertOCSP == InsertOCSP /\ StoreRoom

StoreUpdateOCSP == UpdateOCSP /\ StoreRoom

StoreUpsertOCSP == UpsertOCSP /\ StoreRoom

NextStore ==
    \/ Return
    \/ StoreInsertCertificate
    \/ StoreRevokeCertificate
    \/ StoreInsertOCSP
    \/ StoreUpdateOCSP
    \/ StoreUpsertOCSP
    \/ CallGetUnexpiredCertificates
    \/ CallGetRevokedAndUnexpiredCertificates
    \/ CallGetRevokedAndUnexpiredCertificatesByLabel
    \/ CallGetUnexpiredOCSPs

SpecStore == Init /\ [][NextStore]_vars

---------------------------------------------------------------------------
(* The factory, called by a process that then holds what it returned *)

\* what a call of the factory leaves behind
MadeAccessor(rev, cfg, m) ==
    /\ adb' = IF m.kind = "redis" THEN "client" ELSE adb
    /\ ret' = [Ret0 EXCEPT !.op = "db.NewAccessor", !.impl = rev, !.cfg = cfg,
                            !.val = m.kind, !.err = m.err]

DbNewAccessor ==
    /\ Idle
    /\ \E rev \in FactoryRevisions, cfg \in DBConfigs, dsnOk \in BOOLEAN :
        MadeAccessor(rev, cfg, dbNewAccessor(rev, cfg, dsnOk))
    /\ UNCHANGED <<redis, now, conc>>

NextFactory ==
    \/ Return
    \/ NewAccessor
    \/ SetDB
    \/ Tick
    \/ DbNewAccessor

SpecFactory == Init /\ [][NextFactory]_vars

---------------------------------------------------------------------------
(* Concurrent callers.  Several goroutines share the accessor and call       *)
(* InsertCertificate and RevokeCertificate for one identity.  A call is two  *)
(* steps: the caller builds its field map (RevokeCertificate reads the       *)
(* clock there) and hands it to a.db.HMSet; then the server executes what    *)
(* the client sent and the call returns.  Other callers run in between.      *)

\* the records the concurrent callers insert: all of the one identity
ConcCertInputs ==
    {cr \in CertInputs :
        cr.Serial = ConcIdent[1] /\ cr.AKI = ConcIdent[2] /\ cr.CALabel = IssuerCALabel}

\* caller c has checked the connection and built crmap, and calls a.db.HMSet
ConcCall(c, fields) ==
    /\ conc[c].pending = <<>>
    /\ Len(conc[c].calls) < MaxCalls
    /\ checkDB(adb, "accessor", "up") = NoErr
    /\ conc' = [conc EXCEPT ![c] = [calls   |-> Append(conc[c].calls, fields),
                                     pending |-> hmsetCommands(fields)]]
    /\ UNCHANGED <<redis, adb, now, ret>>

ConcInsertCertificate ==
    \E c \in Callers, cr \in ConcCertInputs : ConcCall(c, certFields(cr))

\* each caller revokes with a reason code of its own
ConcRevokeCertificate ==
    \E c \in Callers : ConcCall(c, revokeFields(c))

\* the server executes the next command of caller c; after the last one the
\* call returns nil
ConcExecute ==
    \E c \in Callers :
        /\ conc[c].pending # <<>>
        /\ redis' = HMSet(ConcKey, Head(conc[c].pending))
        /\ conc' = [conc EXCEPT ![c].pending = Tail(conc[c].pending)]
        /\ UNCHANGED <<adb, now, ret>>

NextConc ==
    \/ Tick
    \/ ConcInsertCertificate
    \/ ConcRevokeCertificate
    \/ ConcExecute

SpecConc == Init /\ [][NextConc]_vars

---------------------------------------------------------------------------
(* What the claims speak of *)

Range(s) == {s[i] : i \in 1..Len(s)}

CertKeys == ScanKeys(certKeyPrefix)

CertFieldNames ==
    {serialField, akiField, calabelField, statusField, reasonField, expiryField,
     revokedatField, pemField}

\* every hash under the certificate prefix decodes
AllDecodable == \A k \in CertKeys : decodeCert(redis[k]).ok

\* the certificate records the store holds
StoredCerts == {decodeCert(redis[k]).rec : k \in {x \in CertKeys : decodeCert(redis[x]).ok}}

\* the key the last call addressed
RetKey == certKeyFromSerialAKI(ret.serial, ret.aki)

\* the accessor has a client and the server answered the whole call
Served == adb = "client" /\ ret.served

SecondResolution(t) == t % TicksPerSec = 0

CrlStepsOnSuccess ==
    <<"LoadFile", "NewAccessor", "ReadBytes(ca)", "ReadBytes(key)",
      "ParseCertificatePEM", "ParsePrivateKeyPEMWithPassword",
      "GetRevokedAndUnexpiredCertificates", "NewCRLFromDB", "PrintCRL">>

---------------------------------------------------------------------------
(* The claims *)

\* C1: whenever every certificate record decodes, in either revision of the
\* accessor, GetRevokedAndUnexpiredCertificates returns no error and exactly
\* the stored records whose status is "revoked" and whose expiry is after now.
C1_RevokedUnexpiredExact ==
    (ret.op = "GetRevokedAndUnexpiredCertificates" /\ Served /\ AllDecodable)
        => /\ ret.err = NoErr
           /\ Range(ret.recs) =
                {r \in StoredCerts : r.Status = revokedStatus /\ r.Expiry > now}

\* C2: in either revision of the accessor and for every label L,
\* GetRevokedAndUnexpiredCertificatesByLabel(L) returns no error and exactly
\* the stored records that are revoked, unexpired and of ca_label L.
C2_ByLabelExact ==
    (ret.op = "GetRevokedAndUnexpiredCertificatesByLabel" /\ Served /\ AllDecodable)
        => /\ ret.err = NoErr
           /\ Range(ret.recs) =
                {r \in StoredCerts : /\ r.Status = revokedStatus
                                     /\ r.Expiry > now
                                     /\ r.CALabel = ret.label}

\* C3: after RevokeCertificate(serial, aki, reason) has returned no error on
\* a key that held a complete certificate record, GetCertificate(serial, aki),
\* in either revision and with the server reachable, returns no error and one
\* record, whose status is "revoked" and whose reason is the reason passed.
C3_RevokeThenGet ==
    (/\ ret.op = "RevokeCertificate" /\ ret.err = NoErr /\ ret.existed
     /\ DOMAIN redis[RetKey] = CertFieldNames)
        => \A impl \in Revisions :
            LET g == GetCertificate(adb, impl, ret.serial, ret.aki, "up")
            IN  /\ g.err = NoErr
                /\ Len(g.recs) = 1
                /\ g.recs[1].Status = revokedStatus
                /\ g.recs[1].Reason = ret.reason

\* C3 witness: a revocation of a stored, complete record has returned no error
C3_Witness ==
    /\ ret.op = "RevokeCertificate" /\ ret.err = NoErr /\ ret.existed
    /\ DOMAIN redis[RetKey] = CertFieldNames
    /\ redis[RetKey][reasonField] = "1"

\* C4: RevokeCertificate on a key that holds nothing returns an error and
\* creates no key.
C4_RevokeAbsentFails ==
    (ret.op = "RevokeCertificate" /\ ~ret.existed)
        => ret.err # NoErr /\ RetKey \notin DOMAIN redis

\* C5: a run of the crl command with an empty CA certificate path or an
\* empty CA key path ends with a non-nil error from generateCRL.
C5_EmptyPathIsError ==
    (ret.op = "crl" /\ (ret.caFile = "" \/ ret.caKeyFile = "")) => ret.err # NoErr

\* C6: a run of the crl command reaches PrintCRL only after every call before
\* it was made and succeeded.
C6_PrintOnlyOnSuccess ==
    (ret.op = "crl" /\ "PrintCRL" \in Range(ret.steps))
        => ret.steps = CrlStepsOnSuccess /\ ret.err = NoErr

\* C7: a run of the crl command with an empty CA certificate path or an
\* empty CA key path loads no database configuration, constructs no accessor
\* and issues no query.
C7_EmptyPathNoStoreAccess ==
    (ret.op = "crl" /\ (ret.caFile = "" \/ ret.caKeyFile = ""))
        => Range(ret.steps) \cap
            {"LoadFile", "NewAccessor", "GetRevokedAndUnexpiredCertificates"} = {}

\* C7 witness: the command has run without a CA certificate path over a store
\* that holds certificates
C7_Witness == ret.op = "crl" /\ ret.caFile = "" /\ CertKeys # {}

\* C8: every record generateCRL hands to NewCRLFromDB carries the issuer's
\* ca_label.
C8_OnlyIssuersRecords ==
    (ret.op = "crl" /\ "NewCRLFromDB" \in Range(ret.steps))
        => \A r \in Range(ret.recs) : r.CALabel = IssuerCALabel

\* C9: after InsertCertificate(r) has returned no error, r's timestamps being
\* whole seconds, GetCertificate(r.Serial, r.AKI), in either revision and with
\* the server reachable, returns no error and exactly the one record r,
\* whatever the key held before.
C9_InsertThenGet ==
    (/\ ret.op = "InsertCertificate" /\ ret.err = NoErr
     /\ SecondResolution(ret.cr.Expiry) /\ SecondResolution(ret.cr.RevokedAt))
        => \A impl \in Revisions :
            GetCertificate(adb, impl, ret.cr.Serial, ret.cr.AKI, "up")
                = Out(<<ret.cr>>, NoErr)

\* C9 witness: a record with whole-second timestamps has been inserted over
\* a key that held something
C9_Witness ==
    /\ ret.op = "InsertCertificate" /\ ret.err = NoErr /\ ret.existed
    /\ SecondResolution(ret.cr.Expiry) /\ SecondResolution(ret.cr.RevokedAt)
    /\ ret.cr.Status = "good"

C11_UnexpiredExact ==
    (ret.op = "GetUnexpiredCertificates" /\ Served /\ AllDecodable)
        => /\ ret.err = NoErr
           /\ Range(ret.recs) = {r \in StoredCerts : r.Expiry > now}

\* C12: in either revision, checkUnexpired(expiry) returns true when expiry is
\* after now and false when it is before now, and checkRevokedUnexpired(status,
\* expiry) returns true exactly when status is "revoked" and expiry is after
\* now, false when the status is another or the expiry is before now.
C12_FilterPredicates ==
    /\ (ret.op = "checkUnexpired" /\ ret.cr.Expiry # now)
            => ret.err = NoErr /\ ret.val = BoolOf(ret.cr.Expiry > now)
    /\ (ret.op = "checkRevokedUnexpired" /\ ret.cr.Expiry # now)
            => /\ ret.err = NoErr
               /\ ret.val = BoolOf(ret.cr.Status = revokedStatus /\ ret.cr.Expiry > now)

\* C13: revocation is permanent: no step of the accessor takes a certificate
\* key whose stored status is "revoked" to a state where its status is
\* anything else.
C13_RevocationPermanent ==
    [][\A k \in CertKeys :
            Field(redis[k], statusField) = revokedStatus
                => k \in DOMAIN redis' /\ Field(redis'[k], statusField) = revokedStatus]_vars

\* the three filter queries over the certificate namespace
FilterOps ==
    {"GetUnexpiredCertificates", "GetRevokedAndUnexpiredCertificates",
     "GetRevokedAndUnexpiredCertificatesByLabel"}

\* C14: a filter query served over a store in which some hash under the
\* certificate prefix does not decode returns the wrapped error and no
\* record at all, in either revision, whatever the scan order and whether or
\* not the corrupt record would have matched.
C14_AllOrNothing ==
    (ret.op \in FilterOps /\ Served /\ ~AllDecodable)
        => ret.err = wrapError /\ ret.recs = <<>>

\* the fields of a hash after a field map is set on it
SetFields(h, fields) ==
    [f \in DOMAIN h \cup DOMAIN fields |->
        IF f \in DOMAIN fields THEN fields[f] ELSE h[f]]

RECURSIVE SetAll(_, _, _)
SetAll(h, order, i) ==
    IF i > Len(order) THEN h
    ELSE SetAll(SetFields(h, conc[order[i][1]].calls[order[i][2]]), order, i + 1)

\* the calls made so far, <<caller, number>>, and those of them that returned
ConcStarted == {x \in Callers \X (1..MaxCalls) : x[2] <= Len(conc[x[1]].calls)}

ConcUnderWay ==
    {x \in ConcStarted : x[2] = Len(conc[x[1]].calls) /\ conc[x[1]].pending # <<>>}

ConcCompleted == ConcStarted \ ConcUnderWay

SerialOrders(S) ==
    {o \in [1..Cardinality(S) -> S] :
        \A i, j \in 1..Cardinality(S) : o[i] = o[j] => i = j}

\* C15: under every interleaving of concurrent InsertCertificate and
\* RevokeCertificate calls on one identity, the stored hash is always what
\* the completed calls, and possibly some of those under way, leave when
\* applied whole in some serial order; and once revocations have completed
\* and nothing is under way, the stored reason and revoked_at are those of
\* one and the same call.
C15_CallsAtomic ==
    /\ \E S \in SUBSET ConcUnderWay :
         \E o \in SerialOrders(ConcCompleted \cup S) :
            HGetAll(ConcKey) = SetAll(EmptyHash, o, 1)
    /\ (ConcUnderWay = {} /\ ConcCompleted # {}
            /\ Field(HGetAll(ConcKey), statusField) = revokedStatus)
        => \E x \in ConcCompleted :
            LET fields == conc[x[1]].calls[x[2]]
            IN  /\ Field(fields, statusField) = revokedStatus
                /\ Field(HGetAll(ConcKey), reasonField) = fields[reasonField]
                /\ Field(HGetAll(ConcKey), revokedatField) = fields[revokedatField]

\* C15 witness: two revocations with different reasons, built at different
\* times, have both completed
C15_Witness ==
    /\ ConcUnderWay = {}
    /\ \A c \in Callers :
        /\ Len(conc[c].calls) = 1
        /\ DOMAIN conc[c].calls[1] = {statusField, reasonField, revokedatField}
    /\ conc[1].calls[1][revokedatField] # conc[2].calls[1][revokedatField]
    /\ Field(HGetAll(ConcKey), reasonField) = "1"

\* what the spec's validation lets through
ValidCert(cr) == cr.Serial # "" /\ cr.AKI # "" /\ cr.Status \in {"good", revokedStatus}

ValidOCSP(rr) == rr.Serial # "" /\ rr.AKI # ""

\* C16: InsertCertificate, InsertOCSP and UpsertOCSP turn away a record whose
\* serial or authority key id is empty or, for a certificate, whose status is
\* neither "good" nor "revoked": no such call returns nil, so none is stored.
C16_InvalidRejected ==
    /\ (ret.op = "InsertCertificate" /\ ret.err = NoErr) => ValidCert(ret.cr)
    /\ (ret.op \in {"InsertOCSP", "UpsertOCSP"} /\ ret.err = NoErr) => ValidOCSP(ret.rr)

\* the public operations of the accessor
AccessorOps ==
    FilterOps \cup {"InsertCertificate", "GetCertificate", "RevokeCertificate",
                    "InsertOCSP", "GetOCSP", "GetUnexpiredOCSPs", "UpdateOCSP",
                    "UpsertOCSP"}

\* the connection check cannot pass: no client is set, or the ping failed
CheckFails == adb = "nil" \/ ret.ping = "failed"

\* C17: every public operation of the accessor called while the connection
\* check fails returns the wrapped store error and sends the server neither a
\* read nor a write.
C17_NoAccessWhenCheckFails ==
    (ret.op \in AccessorOps /\ CheckFails) => ret.err = wrapError /\ ret.cmds = {}

\* C18: a write operation whose HMSet the server did not execute returns a
\* non-nil error.
C18_WriteFailureReported ==
    (ret.op \in AccessorOps /\ "HMSet" \in ret.cmds /\ ~ret.served) => ret.err # NoErr

\* C19: InsertCertificate is idempotent: once InsertCertificate(r) has
\* returned nil, in whatever state the store was, a second InsertCertificate(r)
\* in either revision returns nil and leaves the store as the first left it.
C19_InsertIdempotent ==
    (ret.op = "InsertCertificate" /\ ret.err = NoErr)
        => /\ HMSet(certKeyFromCertRec(ret.cr), certFields(ret.cr)) = redis
           /\ \A impl \in Revisions : checkDB(adb, impl, "up") = NoErr

\* C19 witness: a record has been inserted over a revoked record of the same
\* identity that differs from it
C19_Witness ==
    /\ ret.op = "InsertCertificate" /\ ret.err = NoErr /\ ret.existed
    /\ ret.cr.Status = revokedStatus /\ ~SecondResolution(ret.cr.Expiry)
    /\ redis[certKeyFromCertRec(ret.cr)][calabelField] = "B"

\* the (serial, aki) a write was called with
CalledIdent(r) ==
    IF r.op = "InsertCertificate" THEN <<r.cr.Serial, r.cr.AKI>> ELSE <<r.serial, r.aki>>

\* C20: different (serial, aki) pairs have different keys, so that a
\* successful InsertCertificate or RevokeCertificate changes no stored record
\* that names another identity than the one it was called with.
C20_KeysInjective ==
    [][(ret'.op \in {"InsertCertificate", "RevokeCertificate"} /\ ret'.err = NoErr)
        => \A k \in CertKeys :
            (serialField \in DOMAIN redis[k] /\ redis'[k] # redis[k])
                => <<redis[k][serialField], redis[k][akiField]>> = CalledIdent(ret')]_vars

\* C21: the factory, in either revision, returns without crashing; for a nil
\* configuration and for a driver name that is empty or not registered it
\* returns an error and no accessor; whenever it returns an error it returns
\* no accessor; and the accessor it returns is the redis one for driver
\* "redis" and the relational one for any other driver.
C21_FactoryRejectsInvalid ==
    ret.op = "db.NewAccessor"
        => /\ ret.err # Panic
           /\ (ret.cfg.isNil \/ ret.cfg.DriverName \notin RegisteredDrivers \cup {"redis"})
                => ret.err # NoErr
           /\ ret.err # NoErr => ret.val = "nil"
           /\ ret.err = NoErr
                => ret.val = IF ret.cfg.DriverName = "redis" THEN "redis" ELSE "sql"

\* the OCSP record the last call addressed
RetOcspKey == ocspKeyFromSerialAKI(ret.serial, ret.aki)

OcspWrites == {"InsertOCSP", "UpdateOCSP", "UpsertOCSP"}

\* C22: UpdateOCSP and UpsertOCSP, served by a reachable server, return nil
\* whether or not the key held a record; and after InsertOCSP, UpdateOCSP or
\* UpsertOCSP has returned nil, GetOCSP for the same serial and aki, in either
\* revision and with the server reachable, returns no error and exactly one
\* record, which is the record just written: its body and its expiry, and
\* nothing of what the key held before.
C22_OcspWriteThenGet ==
    /\ (ret.op \in {"UpdateOCSP", "UpsertOCSP"} /\ Served) => ret.err = NoErr
    /\ (ret.op \in OcspWrites /\ ret.err = NoErr)
        => \A impl \in Revisions :
            GetOCSP(adb, impl, ret.serial, ret.aki, "up") = Out(<<ret.rr>>, NoErr)

\* what the relational backend's WHERE clause selects from the stored
\* records for each of the three queries
RelationalSelect(query, label) ==
    {r \in StoredCerts :
        /\ r.Expiry > now
        /\ query # "GetUnexpiredCertificates" => r.Status = revokedStatus
        /\ query = "GetRevokedAndUnexpiredCertificatesByLabel" => r.CALabel = label}

\* C23: over a store of decodable records, each of the three filter queries
\* of the key-value accessor, in either revision, returns without error a
\* list whose set of records is the set the relational predicate selects
\* from the same records.
C23_BackendEquivalence ==
    (ret.op \in FilterOps /\ Served /\ AllDecodable)
        => /\ ret.err = NoErr
           /\ \A r \in RelationalSelect(ret.op, ret.label) : r \in Range(ret.recs)
           /\ \A r \in Range(ret.recs) : r \in RelationalSelect(ret.op, ret.label)

\* C24: every filter query, over certificates or over OCSP responses, comes
\* to an end by returning: its outcome is a list with no error or the wrapped
\* error, never the abort of the process by a stack that a predicate filled.
C24_QueriesReturn ==
    ret.op \in FilterOps \cup {"GetUnexpiredOCSPs"} => ret.err \in {NoErr, wrapError}

\* C25: a successful RevokeCertificate on a key that holds the record of the
\* identity it was called with changes, of that record, nothing but status,
\* reason and revoked_at (serial, aki, ca_label, expiry and pem keep their
\* values and no field appears or disappears), and changes no other key of
\* the store, be it another certificate's or an OCSP response's.
C25_RevokeFrame ==
    [][(/\ ret'.op = "RevokeCertificate" /\ ret'.err = NoErr
        /\ certKeyFromSerialAKI(ret'.serial, ret'.aki) \in DOMAIN redis
        /\ Field(redis[certKeyFromSerialAKI(ret'.serial, ret'.aki)], serialField)
                = ret'.serial
        /\ Field(redis[certKeyFromSerialAKI(ret'.serial, ret'.aki)], akiField)
                = ret'.aki)
        => /\ DOMAIN redis' = DOMAIN redis
           /\ \A k \in DOMAIN redis :
                /\ DOMAIN redis'[k] = DOMAIN redis[k]
                /\ \A f \in DOMAIN redis[k] :
                    redis'[k][f] # redis[k][f]
                        => /\ k = certKeyFromSerialAKI(ret'.serial, ret'.aki)
                           /\ f \in {statusField, reasonField, revokedatField}]_vars

\* a good certificate was revoked while the store held, under the same
\* serial and aki, an OCSP response
C25_Witness ==
    /\ ret.op = "RevokeCertificate" /\ ret.err = NoErr /\ ret.existed
    /\ ret.serial = "1" /\ ret.aki = "2:3"
    /\ Field(redis[RetKey], serialField) = "1"
    /\ Field(redis[RetKey], pemField) = "pem"
    /\ redis[RetKey][statusField] = revokedStatus
    /\ redis[RetKey][reasonField] = "1"
    /\ RetOcspKey \in DOMAIN redis
    /\ redis[RetOcspKey][serialField] = "1"

\* C26: a successful RevokeCertificate on a key that holds the record of the
\* identity it was called with, which an earlier RevokeCertificate has
\* revoked (its revoked_at is not the zero time an insert writes), changes
\* neither the stored reason nor the stored
\* revoked_at, whatever reason and whatever later time the second call brings.
C26_RevokeOnce ==
    [][(/\ ret'.op = "RevokeCertificate" /\ ret'.err = NoErr
        /\ certKeyFromSerialAKI(ret'.serial, ret'.aki) \in DOMAIN redis
        /\ Field(redis[certKeyFromSerialAKI(ret'.serial, ret'.aki)], serialField)
                = ret'.serial
        /\ Field(redis[certKeyFromSerialAKI(ret'.serial, ret'.aki)], akiField)
                = ret'.aki
        /\ Field(redis[certKeyFromSerialAKI(ret'.serial, ret'.aki)], statusField)
                = revokedStatus
        /\ Field(redis[certKeyFromSerialAKI(ret'.serial, ret'.aki)], revokedatField)
                # FormatRFC3339(0))
        => /\ redis'[certKeyFromSerialAKI(ret'.serial, ret'.aki)][reasonField]
                = redis[certKeyFromSerialAKI(ret'.serial, ret'.aki)][reasonField]
           /\ redis'[certKeyFromSerialAKI(ret'.serial, ret'.aki)][revokedatField]
                = redis[certKeyFromSerialAKI(ret'.serial, ret'.aki)][revokedatField]]_vars

\* the reads and parses of the CA certificate and the CA key, in the order
\* generateCRL makes them
CaSteps ==
    <<"ReadBytes(ca)", "ReadBytes(key)", "ParseCertificatePEM",
      "ParsePrivateKeyPEMWithPassword">>

\* the last call a run made
LastStep == ret.steps[Len(ret.steps)]

\* the run ended in a read or a parse of the CA's files that failed
CaStepFailed ==
    /\ ret.op = "crl" /\ ret.steps # <<>> /\ ret.err # NoErr
    /\ LastStep \in Range(CaSteps)

\* the run made all four reads and parses, in order, before its query, and
\* each returned no error
QueryAfterCaSteps ==
    \E i \in 1..Len(ret.steps) :
        /\ ret.steps[i] = "GetRevokedAndUnexpiredCertificates"
        /\ i > Len(CaSteps)
        /\ SubSeq(ret.steps, i - Len(CaSteps), i - 1) = CaSteps
        /\ \A j \in 1..(i - 1) :
            ret.steps[j] # "GetRevokedAndUnexpiredCertificates"

\* C27: a run of the crl command queries the store only after the CA
\* certificate and the CA key have both been read and parsed without error;
\* when one of these four calls fails, neither the query nor NewCRLFromDB is
\* called and the run returns the error of the failed call, which for the
\* reading of the key is that error wrapped as a CertificateError/ReadFailed.
C27_QueryAfterCA ==
    /\ (ret.op = "crl" /\ "GetRevokedAndUnexpiredCertificates" \in Range(ret.steps))
        => QueryAfterCaSteps
    /\ CaStepFailed
        => /\ Range(ret.steps) \cap
                {"GetRevokedAndUnexpiredCertificates", "NewCRLFromDB", "PrintCRL"} = {}
           /\ ret.err = IF LastStep = "ReadBytes(key)" THEN cferrWrap(LastStep)
                        ELSE LastStep

\* the reading of the CA key has failed in a run over a store that holds a
\* revoked certificate
C27_Witness ==
    /\ CaStepFailed /\ LastStep = "ReadBytes(key)"
    /\ \E k \in CertKeys : Field(redis[k], statusField) = revokedStatus

\* C27 as stated: the same, the run returning the very error of the failed
\* call whichever of the four calls failed.
C27_ErrorUnmodified ==
    /\ (ret.op = "crl" /\ "GetRevokedAndUnexpiredCertificates" \in Range(ret.steps))
        => QueryAfterCaSteps
    /\ CaStepFailed
        => /\ Range(ret.steps) \cap
                {"GetRevokedAndUnexpiredCertificates", "NewCRLFromDB", "PrintCRL"} = {}
           /\ ret.err = LastStep

\* every key under the certificate prefix holds all eight fields and no other
AllComplete == \A k \in CertKeys : DOMAIN redis[k] = CertFieldNames

\* C28: from a store in which every certificate key holds the complete
\* eight-field record, any step other than a successful RevokeCertificate on
\* a key that does not exist leads to a store in which every certificate key
\* holds the complete eight-field record and every record decodes, and a
\* certificate filter query that the server has answered does not return the
\* wrapped error of a record that failed to decode.
C28_WellFormed ==
    [][(AllComplete
        /\ ~(ret'.op = "RevokeCertificate" /\ ret'.err = NoErr /\ ~ret'.existed))
        => /\ \A k \in ScanKeys(certKeyPrefix)' :
                DOMAIN redis'[k] = CertFieldNames /\ decodeCert(redis'[k]).ok
           /\ (ret'.op \in FilterOps /\ adb' = "client" /\ ret'.served)
                => ret'.err # wrapError]_vars

\* a filter query of accessor.go has returned records from a store of complete
\* records, one of which RevokeCertificate has revoked
C28_Witness ==
    /\ ret.op \in FilterOps /\ Served /\ ret.impl = "accessor"
    /\ ret.err = NoErr /\ ret.recs # <<>>
    /\ CertKeys # {} /\ AllComplete
    /\ \E k \in CertKeys : redis[k][revokedatField] # FormatRFC3339(0)

OcspKeys == ScanKeys(ocspKeyPrefix)

\* the keys a step has created or changed
Touched == {k \in DOMAIN redis' : k \notin DOMAIN redis \/ redis'[k] # redis[k]}

\* C29: no key is under both prefixes; InsertCertificate and
\* RevokeCertificate create or change keys under the certificate prefix only,
\* InsertOCSP, UpdateOCSP and UpsertOCSP keys under the OCSP prefix only; every
\* record a certificate filter query returns is the decoding of a key under
\* the certificate prefix, and every record GetUnexpiredOCSPs returns is the
\* decoding of a key under the OCSP prefix; also when the store holds a
\* certificate and an OCSP response of the same serial and aki.
C29_NamespacesDisjoint ==
    [][/\ CertKeys \cap OcspKeys = {}
       /\ ret'.op \in {"InsertCertificate", "RevokeCertificate"}
            => \A k \in Touched : k \in CertKeys' /\ k \notin OcspKeys'
       /\ ret'.op \in OcspWrites
            => \A k \in Touched : k \in OcspKeys' /\ k \notin CertKeys'
       /\ ret'.op \in FilterOps
            => \A i \in 1..Len(ret'.recs) :
                \E k \in CertKeys \ OcspKeys : decodeCert(redis[k]).rec = ret'.recs[i]
       /\ ret'.op = "GetUnexpiredOCSPs"
            => \A i \in 1..Len(ret'.recs) :
                \E k \in OcspKeys \ CertKeys : decodeOCSP(redis[k]).rec = ret'.recs[i]]_vars

\* a filter query of accessor.go has returned the one certificate of a store
\* that holds, under the same serial and aki, an OCSP response
C29_Witness ==
    /\ ret.op \in FilterOps /\ ret.impl = "accessor" /\ ret.err = NoErr
    /\ Len(ret.recs) = 1
    /\ OcspKeys # {}
    /\ \E k \in CertKeys, o \in OcspKeys :
        /\ redis[k][serialField] = redis[o][serialField]
        /\ redis[k][akiField] = redis[o][akiField]
        /\ decodeCert(redis[k]).rec = ret.recs[1]

====
